---- MODULE Spec2Model ----
(***************************************************************************)
(* A model of GDP/gdp_model.py: the GDPModel object (self.data,            *)
(* self.gdp_values), its aggregation function calculate_gdp, the sample    *)
(* data generator, the textual summary and the four chart methods.         *)
(*                                                                         *)
(* Numbers.  Python floats are modelled by exact arithmetic: a "cell" is   *)
(* <<v>> for the number v and <<>> for NaN; a quotient is a pair <<n, d>>  *)
(* with d > 0 (<<>> for NaN).  IEEE rounding is not modelled.              *)
(* An optional value (None or a value) is <<>> or <<value>>.               *)
(***************************************************************************)
EXTENDS Integers, Sequences, FiniteSets, TLC

\* ------------------------------------------------------------- bounds
\* years ranges over 0..MaxYears in generate_sample_data
MaxYears == 2
\* array arguments of calculate_gdp have 1..MaxLen elements
MaxLen == 3
\* directly assigned GDP series have 1..MaxPeriods periods
MaxPeriods == 3
\* the modelled stream of normal draws repeats after StreamPeriod draws
StreamPeriod == 5

\* ------------------------------------------------------------- values
None == <<>>
Some(x) == <<x>>

NaN == <<>>
Num(v) == <<v>>
IsNaN(c) == c = <<>>

\* exact quotients n/d, d > 0, kept in lowest terms
Abs(n) == IF n < 0 THEN -n ELSE n

RECURSIVE Gcd(_, _)
Gcd(a, b) == IF b = 0 THEN a ELSE Gcd(b, a % b)

Lowest(n, d) == LET g == Gcd(Abs(n), d) IN <<n \div g, d \div g>>

Rat(n) == <<n, 1>>
RatEq(a, b) == a[1] * b[2] = b[1] * a[2]
RatLess(a, b) == a[1] * b[2] < b[1] * a[2]
RatAdd(a, b) == Lowest(a[1] * b[2] + b[1] * a[2], a[2] * b[2])
\* a / b for integers a, b with b # 0
RatDiv(a, b) == IF b > 0 THEN Lowest(a, b) ELSE Lowest(-a, -b)

RECURSIVE RatSum(_)
RatSum(s) == IF s = <<>> THEN Rat(0) ELSE RatAdd(Head(s), RatSum(Tail(s)))

\* ------------------------------------------- numpy / pandas arithmetic
\* A value handed to or returned by calculate_gdp:
\*   [kind |-> "scalar",  vals |-> <<cell>>]   a float
\*   [kind |-> "ndarray", vals |-> cells]      a 1-d numpy array
\*   [kind |-> "Series",  vals |-> cells]      a pandas Series on RangeIndex
\*   [kind |-> "error",   vals |-> <<>>]       the operator raised ValueError
\*                                             (operands could not be broadcast)
Scalar(v) == [kind |-> "scalar", vals |-> <<Num(v)>>]
NdArray(s) == [kind |-> "ndarray", vals |-> [k \in 1..Len(s) |-> Num(s[k])]]
Series(s) == [kind |-> "Series", vals |-> [k \in 1..Len(s) |-> Num(s[k])]]
BroadcastError == [kind |-> "error", vals |-> <<>>]

Max2(a, b) == IF a >= b THEN a ELSE b

CellOp(op, x, y) ==
    IF IsNaN(x) \/ IsNaN(y) THEN NaN
    ELSE IF op = "+" THEN Num(x[1] + y[1]) ELSE Num(x[1] - y[1])

\* element k of an operand stretched to a longer shape (numpy broadcasting of a
\* scalar or of a one-element array)
Stretch(a, k) == IF Len(a.vals) = 1 THEN a.vals[1] ELSE a.vals[k]

\* element k of a Series aligned on the union of the two indexes
Aligned(a, k) == IF k <= Len(a.vals) THEN a.vals[k] ELSE NaN

BinOp(op, a, b) ==
    IF a.kind = "error" \/ b.kind = "error" THEN BroadcastError
    ELSE IF a.kind = "scalar" /\ b.kind = "scalar"
    THEN [kind |-> "scalar", vals |-> <<CellOp(op, a.vals[1], b.vals[1])>>]
    ELSE IF a.kind = "scalar"
    THEN [kind |-> b.kind,
          vals |-> [k \in 1..Len(b.vals) |-> CellOp(op, a.vals[1], b.vals[k])]]
    ELSE IF b.kind = "scalar"
    THEN [kind |-> a.kind,
          vals |-> [k \in 1..Len(a.vals) |-> CellOp(op, a.vals[k], b.vals[1])]]
    ELSE IF a.kind = "ndarray" /\ b.kind = "ndarray"
    THEN IF Len(a.vals) = Len(b.vals) \/ Len(a.vals) = 1 \/ Len(b.vals) = 1
         THEN [kind |-> "ndarray",
               vals |-> [k \in 1..Max2(Len(a.vals), Len(b.vals)) |->
                            CellOp(op, Stretch(a, k), Stretch(b, k))]]
         ELSE BroadcastError
    ELSE \* two Series: aligned on the index, NaN where either has no entry
         [kind |-> "Series",
          vals |-> [k \in 1..Max2(Len(a.vals), Len(b.vals)) |->
                       CellOp(op, Aligned(a, k), Aligned(b, k))]]

\* a faulty variant: imports added instead of subtracted
calculate_gdp_plus_imports(consumption, investment, government_spending, exports, imports) ==
    LET net_exports == BinOp("+", exports, imports)
    IN  BinOp("+", BinOp("+", BinOp("+", consumption, investment),
                         government_spending), net_exports)

\* GDPModel.calculate_gdp
calculate_gdp(consumption, investment, government_spending, exports, imports) ==
    LET net_exports == BinOp("-", exports, imports)
        gdp == BinOp("+", BinOp("+", BinOp("+", consumption, investment),
                                government_spending), net_exports)
    IN  gdp

\* ------------------------------------------------------------- state
VARIABLES
    data,        \* self.data: None, or Some(the DataFrame, a record of columns)
    gdp_values,  \* self.gdp_values
    rng_stream,  \* the standard-normal draws numpy yields after seed(42)
    gen_args,    \* None, or Some(<<years, start_year>>) of the last generation
    op,          \* the method called last
    args,        \* the arguments of the last calculate_gdp call (else <<>>)
    result,      \* None, or Some(value) returned by the last calculate_gdp call
    raised,      \* the exception the last call raised ("None": it returned)
    out          \* what the last call printed, drew and saved, in order

vars == <<data, gdp_values, rng_stream, gen_args, op, args, result, raised, out>>

\* ------------------------------------------------------- program constants
base_consumption == 5000
base_investment == 1500
base_gov_spending == 2000
base_exports == 1800
base_imports == 1600

\* generate_sample_data's parameters: years, and start_year (default 2015)
YearsArgs == 0..MaxYears
StartYears == {2015, 2020}

\* np.random.normal(0, scale) returns scale * z, z the next standard-normal draw
\* of the stream that np.random.seed(42) fixes.  The stream is not computed: it is
\* any sequence of deviations one up or one down that repeats after StreamPeriod
\* draws, chosen once and the same in every call.
NoiseZ == {-1, 1}
Streams == [1..StreamPeriod -> NoiseZ]

\* the j-th call (from 0) of np.random.normal(0, scale) after np.random.seed(42)
normal(stream, j, scale) == scale * stream[(j % StreamPeriod) + 1]

\* ------------------------------------------------------------- the table
Rows(df) == Len(df.Year)
Table == data[1]

Column(cells) == [kind |-> "Series", vals |-> cells]

\* a faulty variant: the range of years starts one late
years_list_off_by_one(start_year, years) == [k \in 1..years |-> start_year + k]

\* list(range(start_year, start_year + years))
years_list_of(start_year, years) == [k \in 1..years |-> start_year + (k - 1)]

\* a faulty variant: GDP attached without the net exports term
attach_gdp_without_net_exports(df) ==
    [Year |-> df.Year, Consumption |-> df.Consumption, Investment |-> df.Investment,
     Government_Spending |-> df.Government_Spending, Exports |-> df.Exports,
     Imports |-> df.Imports,
     GDP |-> BinOp("+", BinOp("+", Column(df.Consumption), Column(df.Investment)),
                   Column(df.Government_Spending)).vals,
     Net_Exports |-> BinOp("-", Column(df.Exports), Column(df.Imports)).vals]

\* self.data['GDP'] = self.calculate_gdp(...); self.data['Net_Exports'] = ...
attach_gdp(df) ==
    [Year |-> df.Year, Consumption |-> df.Consumption, Investment |-> df.Investment,
     Government_Spending |-> df.Government_Spending, Exports |-> df.Exports,
     Imports |-> df.Imports,
     GDP |-> calculate_gdp(Column(df.Consumption), Column(df.Investment),
                           Column(df.Government_Spending), Column(df.Exports),
                           Column(df.Imports)).vals,
     Net_Exports |-> BinOp("-", Column(df.Exports), Column(df.Imports)).vals]

\* the dict `data` of generate_sample_data; the five list comprehensions draw
\* from the stream one after the other, `years` draws each
sample_columns(stream, years, start_year) ==
    [Year |-> years_list_of(start_year, years),
     Consumption |-> [k \in 1..years |->
         Num(base_consumption + (k - 1) * 200 + normal(stream, k - 1, 100))],
     Investment |-> [k \in 1..years |->
         Num(base_investment + (k - 1) * 80 + normal(stream, years + k - 1, 50))],
     Government_Spending |-> [k \in 1..years |->
         Num(base_gov_spending + (k - 1) * 100 + normal(stream, 2 * years + k - 1, 60))],
     Exports |-> [k \in 1..years |->
         Num(base_exports + (k - 1) * 90 + normal(stream, 3 * years + k - 1, 70))],
     Imports |-> [k \in 1..years |->
         Num(base_imports + (k - 1) * 85 + normal(stream, 4 * years + k - 1, 65))],
     GDP |-> <<>>,
     Net_Exports |-> <<>>]

\* ------------------------------------------------------------- __init__
Init ==
    /\ data = None
    /\ gdp_values = None
    /\ rng_stream \in Streams
    /\ gen_args = None
    /\ op = "__init__"
    /\ args = <<>>
    /\ result = None
    /\ raised = "None"
    /\ out = <<>>

\* ------------------------------------------------- generate_sample_data
generate_sample_data(years, start_year) ==
    /\ data' = Some(attach_gdp(sample_columns(rng_stream, years, start_year)))
    /\ gen_args' = Some(<<years, start_year>>)
    /\ op' = "generate_sample_data"
    /\ args' = <<>>
    /\ result' = None
    /\ raised' = "None"
    /\ out' = <<>>
    /\ UNCHANGED <<gdp_values, rng_stream>>

\* ------------------------------------------------------------ Series methods
\* the numbers of a column without NaN, as quotients
Rats(cells) == [k \in 1..Len(cells) |-> Rat(cells[k][1])]
Ints(cells) == [k \in 1..Len(cells) |-> cells[k][1]]

\* a faulty variant: the change is taken relative to the period itself
pct_change_of_current(g) ==
    [k \in 1..Len(g) |-> IF k = 1 THEN NaN ELSE RatDiv(g[k] - g[k - 1], g[k])]

\* Series.pct_change(): NaN first, then g[k] / g[k-1] - 1
pct_change(g) ==
    [k \in 1..Len(g) |->
        IF k = 1 THEN NaN
        ELSE LET q == RatDiv(g[k], g[k - 1]) IN <<q[1] - q[2], q[2]>>]

\* series * 100
times100(s) ==
    [k \in 1..Len(s) |-> IF IsNaN(s[k]) THEN NaN ELSE Lowest(s[k][1] * 100, s[k][2])]

\* growth_rate[1:], the positional slice that drops the first entry; entry j of
\* the slice keeps its index label, which is row j + 1 of the table
tail_of(s) == SubSeq(s, 2, Len(s))

\* Series.mean() of a series without NaN: NaN when it is empty
mean(s) == IF s = <<>> THEN NaN ELSE LET t == RatSum(s) IN Lowest(t[1], t[2] * Len(s))

\* numpy's argmax scan: the best position so far is replaced only by a strictly
\* greater entry
RECURSIVE argmax_scan(_, _, _)
argmax_scan(s, k, best) ==
    IF k > Len(s) THEN best
    ELSE argmax_scan(s, k + 1, IF RatLess(s[best], s[k]) THEN k ELSE best)

RECURSIVE argmin_scan(_, _, _)
argmin_scan(s, k, best) ==
    IF k > Len(s) THEN best
    ELSE argmin_scan(s, k + 1, IF RatLess(s[k], s[best]) THEN k ELSE best)

\* a faulty variant: a later equal entry replaces the best position
RECURSIVE argmax_scan_last(_, _, _)
argmax_scan_last(s, k, best) ==
    IF k > Len(s) THEN best
    ELSE argmax_scan_last(s, k + 1, IF RatLess(s[k], s[best]) THEN best ELSE k)

idxmax_last(s) == argmax_scan_last(s, 2, 1)

\* Series.idxmax() / idxmin() of a non-empty series: the position of the first
\* occurrence of the extreme (an empty series raises instead, see print_summary)
idxmax(s) == argmax_scan(s, 2, 1)
idxmin(s) == argmin_scan(s, 2, 1)

\* ------------------------------------------------------------- output items
Item(kind, name, nums) == [kind |-> kind, name |-> name, nums |-> nums]
Named(o, name) == CHOOSE k \in 1..Len(o) : o[k].name = name
Has(o, name) == \E k \in 1..Len(o) : o[k].name = name
Get(o, name) == o[Named(o, name)].nums

\* ------------------------------------------------------- the guard on self.data
\* a faulty variant: the check comes after the first output
no_data_after_output == [out |-> <<Item("text", "banner", <<>>)>>, raised |-> "ValueError_NoData"]

\* if self.data is None: raise ValueError(...), the first statement of
\* print_summary and of every chart method
no_data == [out |-> <<>>, raised |-> "ValueError_NoData"]

\* ------------------------------------------------------------ print_summary
\* lines 244-248: the banner, the period line and the mean line; on an empty
\* table min, max and mean are NaN
summary_head(df) ==
    LET n == Rows(df)
        gdp == Rats(df.GDP)
    IN  << Item("text", "banner", <<>>),
           Item("stat", "period",
                IF n = 0 THEN <<NaN, NaN>> ELSE <<Rat(df.Year[1]), Rat(df.Year[n])>>),
           Item("stat", "mean", <<mean(gdp)>>) >>

\* lines 249-250, for a table with at least one row
summary_extremes(df) ==
    LET gdp == Rats(df.GDP)
    IN  << Item("stat", "max", <<gdp[idxmax(gdp)], Rat(df.Year[idxmax(gdp)])>>),
           Item("stat", "min", <<gdp[idxmin(gdp)], Rat(df.Year[idxmin(gdp)])>>) >>

\* line 252
growth_rate_of(df) == times100(pct_change(Ints(df.GDP)))

\* line 253
summary_growth_mean(df) ==
    << Item("stat", "growth_mean", <<mean(tail_of(growth_rate_of(df)))>>) >>

\* line 254, for a table with at least two rows: growth_rate[1:].idxmax() is an
\* index label, looked up in the table with data.loc
summary_growth_max(df) ==
    LET g == tail_of(growth_rate_of(df))
        label == idxmax(g) + (Rows(df) - Len(g))
    IN  << Item("stat", "growth_max", <<g[idxmax(g)], Rat(df.Year[label])>>) >>

\* lines 256-260
summary_table(df) ==
    << Item("text", "table", <<Rat(Rows(df))>>), Item("text", "footer", <<>>) >>

\* The whole method: what it prints and the exception it ends with.  idxmax of an
\* empty series raises in pandas (ValueError, or TypeError for the object columns
\* of a table built from empty lists): "ArgmaxOfEmpty".  The f-string of a line is
\* evaluated before the line is printed, so the raising line prints nothing.
summary_run(d) ==
    IF d = None THEN no_data
    ELSE LET df == d[1]
             n == Rows(df)
         IN  IF n = 0
             THEN [out |-> summary_head(df), raised |-> "ArgmaxOfEmpty"]
             ELSE IF Len(tail_of(growth_rate_of(df))) = 0
             THEN [out |-> summary_head(df) \o summary_extremes(df)
                            \o summary_growth_mean(df),
                   raised |-> "ArgmaxOfEmpty"]
             ELSE [out |-> summary_head(df) \o summary_extremes(df)
                            \o summary_growth_mean(df) \o summary_growth_max(df)
                            \o summary_table(df),
                   raised |-> "None"]

\* a faulty variant: the summary keeps the GDP column in self.gdp_values
print_summary_keeps_gdp_values ==
    /\ op' = "print_summary"
    /\ out' = summary_run(data).out
    /\ raised' = summary_run(data).raised
    /\ args' = <<>>
    /\ result' = None
    /\ gdp_values' = IF data = None THEN None ELSE Some(data[1].GDP)
    /\ UNCHANGED <<data, rng_stream, gen_args>>

print_summary ==
    /\ op' = "print_summary"
    /\ out' = summary_run(data).out
    /\ raised' = summary_run(data).raised
    /\ args' = <<>>
    /\ result' = None
    /\ UNCHANGED <<data, gdp_values, rng_stream, gen_args>>

\* ------------------------------------------------------------- the charts
\* Each chart method checks self.data first, then draws, saves the figure to
\* save_path and prints a confirmation; matplotlib itself is not modelled, only
\* the series handed to it.

saved(save_path) == << Item("savefig", save_path, <<>>), Item("text", "saved", <<>>) >>

Sum2(a, b) == [k \in 1..Len(a) |-> RatAdd(a[k], b[k])]

gdp_trend_run(d, save_path) ==
    IF d = None THEN no_data
    ELSE LET df == d[1]
         IN  [out |-> << Item("x", "Year", Rats([k \in 1..Rows(df) |-> Num(df.Year[k])])),
                         Item("line", "GDP", Rats(df.GDP)),
                         Item("annotate", "GDP labels", Rats(df.GDP)) >>
                      \o saved(save_path),
              raised |-> "None"]

gdp_components_run(d, save_path) ==
    IF d = None THEN no_data
    ELSE LET df == d[1]
             c == Rats(df.Consumption)
             i == Rats(df.Investment)
             g == Rats(df.Government_Spending)
         IN  [out |-> << Item("x", "Year", Rats([k \in 1..Rows(df) |-> Num(df.Year[k])])),
                         Item("bar", "Consumption", c),
                         Item("bar", "Investment", i),
                         Item("bottom", "Investment bottom", c),
                         Item("bar", "Government_Spending", g),
                         Item("bottom", "Government_Spending bottom", Sum2(c, i)),
                         Item("bar", "Net_Exports", Rats(df.Net_Exports)),
                         Item("bottom", "Net_Exports bottom", Sum2(Sum2(c, i), g)) >>
                      \o saved(save_path),
              raised |-> "None"]

growth_rate_run(d, save_path) ==
    IF d = None THEN no_data
    ELSE LET df == d[1]
             g == tail_of(growth_rate_of(df))
         IN  [out |-> << Item("x", "Year[1:]",
                              Rats([k \in 1..(Rows(df) - 1) |-> Num(df.Year[k + 1])])),
                         Item("bar", "growth_rate[1:]", g),
                         Item("color", "green if x >= 0",
                              [k \in 1..Len(g) |-> IF g[k][1] >= 0 THEN Rat(1) ELSE Rat(0)]),
                         Item("annotate", "rate labels", g) >>
                      \o saved(save_path),
              raised |-> "None"]

all_components_trends_run(d, save_path) ==
    IF d = None THEN no_data
    ELSE LET df == d[1]
         IN  [out |-> << Item("x", "Year", Rats([k \in 1..Rows(df) |-> Num(df.Year[k])])),
                         Item("line", "Consumption", Rats(df.Consumption)),
                         Item("line", "Investment", Rats(df.Investment)),
                         Item("line", "Government_Spending", Rats(df.Government_Spending)),
                         Item("line", "Exports", Rats(df.Exports)),
                         Item("line", "Imports", Rats(df.Imports)),
                         Item("line", "GDP", Rats(df.GDP)) >>
                      \o saved(save_path),
              raised |-> "None"]

\* a chart method leaves the object as it is
chart(name, run) ==
    /\ op' = name
    /\ out' = run.out
    /\ raised' = run.raised
    /\ args' = <<>>
    /\ result' = None
    /\ UNCHANGED <<data, gdp_values, rng_stream, gen_args>>

plot_gdp_trend(save_path) == chart("plot_gdp_trend", gdp_trend_run(data, save_path))

plot_gdp_components(save_path) ==
    chart("plot_gdp_components", gdp_components_run(data, save_path))

plot_growth_rate(save_path) == chart("plot_growth_rate", growth_rate_run(data, save_path))

plot_all_components_trends(save_path) ==
    chart("plot_all_components_trends", all_components_trends_run(data, save_path))

\* ------------------------------------------------- calling calculate_gdp
\* a call with the arguments a[1..5]; a broadcast failure propagates as the
\* ValueError numpy raises, and nothing is returned
call_calculate_gdp(a) ==
    LET r == calculate_gdp(a[1], a[2], a[3], a[4], a[5])
    IN  /\ op' = "calculate_gdp"
        /\ args' = a
        /\ result' = IF r.kind = "error" THEN None ELSE Some(r)
        /\ raised' = IF r.kind = "error" THEN "ValueError_Broadcast" ELSE "None"
        /\ out' = <<>>
        /\ UNCHANGED <<data, gdp_values, rng_stream, gen_args>>

\* arguments: floats, and arrays v, v+1, ... of 1..MaxLen elements
ScalarVals == {-1, 0, 2}
ArrayStarts == {-1, 2}
Arange(v, n) == [k \in 1..n |-> v + (k - 1)]
Scalars == {Scalar(v) : v \in ScalarVals}
NdArrays == {NdArray(Arange(v, n)) : v \in ArrayStarts, n \in 1..MaxLen}
SeriesArgs == {Series(Arange(v, n)) : v \in ArrayStarts, n \in 1..MaxLen}

\* every call: five arguments, each a float or an array, the arrays of one call
\* all numpy arrays or all pandas Series
AllCalls == [1..5 -> Scalars \cup NdArrays] \cup [1..5 -> Scalars \cup SeriesArgs]

\* the calls of the object's life: the base values of the generator as floats,
\* a call on arrays of 3 and 2 elements, a call on Series of 3 and 2 elements
SampleCalls ==
    { <<Scalar(base_consumption), Scalar(base_investment), Scalar(base_gov_spending),
        Scalar(base_exports), Scalar(base_imports)>>,
      [k \in 1..5 |-> IF k = 5 THEN NdArray(Arange(2, 2)) ELSE NdArray(Arange(2, 3))],
      [k \in 1..5 |-> IF k = 5 THEN Series(Arange(2, 2)) ELSE Series(Arange(2, 3))] }

\* the default save_path of each chart method
DefaultPath(name) ==
    CASE name = "plot_gdp_trend" -> "gdp_trend.png"
      [] name = "plot_gdp_components" -> "gdp_components.png"
      [] name = "plot_growth_rate" -> "gdp_growth_rate.png"
      [] name = "plot_all_components_trends" -> "all_components_trends.png"

\* ------------------------------------------------------ the object's life
Next ==
    \/ \E years \in YearsArgs, start_year \in StartYears :
          generate_sample_data(years, start_year)
    \/ \E a \in SampleCalls : call_calculate_gdp(a)
    \/ print_summary
    \/ plot_gdp_trend(DefaultPath("plot_gdp_trend"))
    \/ plot_gdp_components(DefaultPath("plot_gdp_components"))
    \/ plot_growth_rate(DefaultPath("plot_growth_rate"))
    \/ plot_all_components_trends(DefaultPath("plot_all_components_trends"))

Spec == Init /\ [][Next]_vars

\* ------------------------------------------- calculate_gdp on drawn inputs
\* the object right after construction, about to be called with `args`
InitCalc ==
    /\ data = None
    /\ gdp_values = None
    /\ rng_stream = [k \in 1..StreamPeriod |-> 1]
    /\ gen_args = None
    /\ op = "__init__"
    /\ args \in AllCalls
    /\ result = None
    /\ raised = "None"
    /\ out = <<>>

NextCalc == op = "__init__" /\ call_calculate_gdp(args)

SpecCalc == InitCalc /\ [][NextCalc]_vars

\* ------------------------------------ the summary on directly assigned data
\* GDP series of 1..MaxPeriods periods
GDPVals == {100, 110, 121}
GDPSeries == UNION {[1..n -> GDPVals] : n \in 1..MaxPeriods}

\* a table assigned to self.data from outside, its GDP attached as
\* generate_sample_data attaches it
assigned_table(g) ==
    attach_gdp([Year |-> years_list_of(2015, Len(g)),
                Consumption |-> [k \in 1..Len(g) |-> Num(g[k])],
                Investment |-> [k \in 1..Len(g) |-> Num(0)],
                Government_Spending |-> [k \in 1..Len(g) |-> Num(0)],
                Exports |-> [k \in 1..Len(g) |-> Num(0)],
                Imports |-> [k \in 1..Len(g) |-> Num(0)],
                GDP |-> <<>>,
                Net_Exports |-> <<>>])

InitStats ==
    /\ data \in {Some(assigned_table(g)) : g \in GDPSeries}
    /\ gdp_values = None
    /\ rng_stream = [k \in 1..StreamPeriod |-> 1]
    /\ gen_args = None
    /\ op = "__init__"
    /\ args = <<>>
    /\ result = None
    /\ raised = "None"
    /\ out = <<>>

NextStats ==
    \/ print_summary
    \/ plot_gdp_trend(DefaultPath("plot_gdp_trend"))
    \/ plot_gdp_components(DefaultPath("plot_gdp_components"))
    \/ plot_growth_rate(DefaultPath("plot_growth_rate"))
    \/ plot_all_components_trends(DefaultPath("plot_all_components_trends"))

SpecStats == InitStats /\ [][NextStats]_vars

\* ================================================================ claims
ReadOps == {"print_summary", "plot_gdp_trend", "plot_gdp_components",
            "plot_growth_rate", "plot_all_components_trends"}

AllOfKind(a, kind) == \A k \in 1..5 : a[k].kind = kind
EqualLength(a) == \A k \in 1..5 : Len(a[k].vals) = Len(a[1].vals)
ArrayArgs(a) == {k \in 1..5 : a[k].kind # "scalar"}
Mismatched(a) == \E j, k \in ArrayArgs(a) : Len(a[j].vals) # Len(a[k].vals)
V(a, k, p) == a[k].vals[p][1]

\* C1: calculate_gdp(c, i, g, x, m) on numbers returns c + i + g + (x - m), and
\* on equal-length arrays (numpy arrays or Series) the array of the same kind
\* whose entry at every position p is c[p] + i[p] + g[p] + (x[p] - m[p]).
C1_Formula ==
    op = "calculate_gdp" =>
        /\ AllOfKind(args, "scalar") =>
              /\ raised = "None"
              /\ result = Some(Scalar(V(args, 1, 1) + V(args, 2, 1) + V(args, 3, 1)
                                       + (V(args, 4, 1) - V(args, 5, 1))))
        /\ \A kind \in {"ndarray", "Series"} :
              AllOfKind(args, kind) /\ EqualLength(args) =>
                  /\ raised = "None"
                  /\ result = Some([kind |-> kind,
                                    vals |-> [p \in 1..Len(args[1].vals) |->
                                        Num(V(args, 1, p) + V(args, 2, p) + V(args, 3, p)
                                            + (V(args, 4, p) - V(args, 5, p)))]])

\* a call on numpy arrays of three elements with a negative entry and a zero
C1_Witness ==
    /\ op = "calculate_gdp"
    /\ AllOfKind(args, "ndarray")
    /\ EqualLength(args)
    /\ Len(args[1].vals) = 3
    /\ V(args, 5, 1) = 2
    /\ V(args, 4, 1) = -1
    /\ result # None
    /\ result[1].vals[1] = Num(-1 + -1 + -1 + (-1 - 2))

\* C2: once generate_sample_data has returned, every record of the table has
\* GDP = Consumption + Investment + Government_Spending + (Exports - Imports)
\* and Net_Exports = Exports - Imports, in every later state.
C2_Formula ==
    data # None =>
        /\ Len(Table.GDP) = Rows(Table)
        /\ Len(Table.Net_Exports) = Rows(Table)
        /\ \A k \in 1..Rows(Table) :
              /\ Table.GDP[k] = Num(Table.Consumption[k][1] + Table.Investment[k][1]
                                    + Table.Government_Spending[k][1]
                                    + (Table.Exports[k][1] - Table.Imports[k][1]))
              /\ Table.Net_Exports[k] = Num(Table.Exports[k][1] - Table.Imports[k][1])

\* a generated table of two records, read by a later chart call
C2_Witness ==
    /\ data # None
    /\ Rows(Table) = 2
    /\ op = "plot_gdp_components"
    /\ Table.Net_Exports[2] = Num(base_exports + 90 + 70 - (base_imports + 85 - 65))

\* C3 (as claimed): calculate_gdp on arrays of different lengths raises the shape
\* error and returns nothing.
C3_Claim ==
    op = "calculate_gdp" /\ Mismatched(args) =>
        raised = "ValueError_Broadcast" /\ result = None

\* C4 (as claimed): print_summary on a table of zero records fails at once, before
\* any statistic is printed.
C4_Claim ==
    op = "print_summary" /\ data # None /\ Rows(Table) = 0 =>
        /\ raised # "None"
        /\ \A k \in 1..Len(out) : out[k].kind # "stat"

\* C5 (as claimed): print_summary on a table of one record raises nothing; mean,
\* max and min are the record's GDP, the two periods its year, and the growth
\* fields are undefined or absent.
C5_Claim ==
    op = "print_summary" /\ data # None /\ Rows(Table) = 1 =>
        /\ raised = "None"
        /\ Get(out, "mean") = <<Rat(Table.GDP[1][1])>>
        /\ Get(out, "max") = <<Rat(Table.GDP[1][1]), Rat(Table.Year[1])>>
        /\ Get(out, "min") = <<Rat(Table.GDP[1][1]), Rat(Table.Year[1])>>
        /\ Has(out, "growth_mean") => Get(out, "growth_mean") = <<NaN>>
        /\ ~Has(out, "growth_max")

\* the growth rate the specification defines for row k >= 2 of the table
ExpectedGrowth(df, k) ==
    Lowest((df.GDP[k][1] - df.GDP[k - 1][1]) * 100, df.GDP[k - 1][1])
ExpectedRates(df) == [j \in 1..(Rows(df) - 1) |-> ExpectedGrowth(df, j + 1)]

\* C6: the growth rate of period k >= 2 is (GDP[k] - GDP[k-1]) / GDP[k-1] * 100;
\* the growth chart has one bar per period after the first, at that period's
\* year; the mean and the maximum growth of the summary range over the periods
\* after the first only; a constant series has growth 0 throughout and the
\* series 100, 110 has growth 10.
C6_Formula ==
    data # None /\ raised = "None" =>
        LET df == Table
            n == Rows(df)
            exp == ExpectedRates(df)
        IN  /\ op = "plot_growth_rate" =>
                LET bars == Get(out, "growth_rate[1:]")
                    xs == Get(out, "Year[1:]")
                IN  /\ Len(bars) = n - 1
                    /\ Len(xs) = n - 1
                    /\ \A j \in 1..(n - 1) :
                          /\ RatEq(bars[j], exp[j])
                          /\ xs[j] = Rat(df.Year[j + 1])
                    /\ (\A k \in 1..n : df.GDP[k] = df.GDP[1]) =>
                          \A j \in 1..(n - 1) : RatEq(bars[j], Rat(0))
                    /\ Ints(df.GDP) = <<100, 110>> => RatEq(bars[1], Rat(10))
            /\ op = "print_summary" =>
                LET gmean == Get(out, "growth_mean")[1]
                    gmax == Get(out, "growth_max")[1]
                    total == RatSum(exp)
                IN  /\ RatEq(gmean, Lowest(total[1], total[2] * (n - 1)))
                    /\ \E j \in 1..(n - 1) : RatEq(gmax, exp[j])
                    /\ \A j \in 1..(n - 1) : ~RatLess(gmax, exp[j])

\* the growth chart of the series 100, 110: one bar, of height 10, at the second year
C6_Witness ==
    /\ data # None
    /\ op = "plot_growth_rate"
    /\ Ints(Table.GDP) = <<100, 110>>
    /\ Len(Get(out, "growth_rate[1:]")) = 1
    /\ RatEq(Get(out, "growth_rate[1:]")[1], Rat(10))

\* the first row at which a series of quotients takes its greatest / least value
IsFirstMax(s, k) ==
    /\ \A j \in 1..Len(s) : ~RatLess(s[k], s[j])
    /\ \A j \in 1..(k - 1) : RatLess(s[j], s[k])
IsFirstMin(s, k) ==
    /\ \A j \in 1..Len(s) : ~RatLess(s[j], s[k])
    /\ \A j \in 1..(k - 1) : RatLess(s[k], s[j])

\* C7: the year the summary reports for the maximum GDP, the minimum GDP and the
\* maximum growth rate is that of the earliest period, in table order, at which
\* the extreme value occurs.
C7_Formula ==
    op = "print_summary" /\ data # None /\ raised = "None" =>
        LET df == Table
            gdp == Rats(df.GDP)
            exp == ExpectedRates(df)
        IN  /\ \E k \in 1..Rows(df) :
                  IsFirstMax(gdp, k) /\ Get(out, "max") = <<gdp[k], Rat(df.Year[k])>>
            /\ \E k \in 1..Rows(df) :
                  IsFirstMin(gdp, k) /\ Get(out, "min") = <<gdp[k], Rat(df.Year[k])>>
            /\ \E j \in 1..Len(exp) :
                  /\ IsFirstMax(exp, j)
                  /\ Get(out, "growth_max")[2] = Rat(df.Year[j + 1])

\* the summary of the constant series 110, 110, 110: every period ties for the
\* maximum and the minimum, and both growth rates tie at 0
C7_Witness ==
    /\ op = "print_summary"
    /\ data # None
    /\ raised = "None"
    /\ Ints(Table.GDP) = <<110, 110, 110>>
    /\ Get(out, "max") = <<Rat(110), Rat(Table.Year[1])>>
    /\ Get(out, "min") = <<Rat(110), Rat(Table.Year[1])>>
    /\ Get(out, "growth_max")[2] = Rat(Table.Year[2])

\* C8: a call of calculate_gdp, print_summary or a chart method leaves self.data
\* and self.gdp_values as they were; only generate_sample_data changes the table.
C8_Formula ==
    [][op' # "generate_sample_data" => data' = data /\ gdp_values' = gdp_values]_vars

\* a populated table after a summary that completed
C8_Witness ==
    /\ data # None
    /\ op = "print_summary"
    /\ raised = "None"
    /\ Rows(Table) = 2

\* C9: the table generate_sample_data(years, start_year) produced has `years`
\* records, the k-th (from 0) with Year = start_year + k, so that Year increases
\* strictly in table order.
C9_Formula ==
    gen_args # None =>
        LET years == gen_args[1][1]
            start_year == gen_args[1][2]
        IN  /\ data # None
            /\ Rows(Table) = years
            /\ \A f \in {"Consumption", "Investment", "Government_Spending",
                         "Exports", "Imports", "GDP", "Net_Exports"} :
                  Len(Table[f]) = years
            /\ \A k \in 1..years : Table.Year[k] = start_year + (k - 1)
            /\ \A k \in 1..(years - 1) : Table.Year[k] < Table.Year[k + 1]

\* generate_sample_data(2, 2020): the years 2020, 2021
C9_Witness ==
    /\ gen_args = Some(<<2, 2020>>)
    /\ data # None
    /\ Table.Year = <<2020, 2021>>

\* C10: while self.data is None, print_summary and every chart method raise the
\* no-data ValueError with nothing printed, drawn or saved, and self.data stays
\* None; once the table is populated it stays populated and no call raises that
\* ValueError.
C10_Formula ==
    [][ /\ data = None /\ op' \in ReadOps =>
              raised' = "ValueError_NoData" /\ out' = <<>> /\ data' = None
        /\ data # None => data' # None /\ raised' # "ValueError_NoData" ]_vars

\* the summary asked of a fresh object
C10_Witness ==
    /\ data = None
    /\ op = "print_summary"
    /\ raised = "ValueError_NoData"
    /\ out = <<>>

====
